---- MODULE Spec2Model ----
(***************************************************************************)
(* A model of NetflixDownloader (src/netflix_downloader_js.js): the        *)
(* identifier resolver, the candidate generator, the concurrent image      *)
(* probes of the grid, the black-bar trimmer and the single / ZIP          *)
(* download handlers.                                                      *)
(*                                                                         *)
(* JavaScript strings that the code inspects character by character (the   *)
(* text of the input field) are sequences of one-character strings;        *)
(* strings the code only builds and compares (ids, URLs, filenames) are    *)
(* TLA+ strings built with \o exactly as the template literals build them. *)
(***************************************************************************)
EXTENDS Integers, Sequences, FiniteSets, TLC

(***************************************************************************)
(* Bounds of the model.                                                    *)
(***************************************************************************)
\* number of CDN hosts of cdnHosts the generator is instantiated on
MaxHosts == 2
\* number of fetchThumbnails calls that reach generation in one behaviour
MaxFetches == 2
\* largest image width and height handed to removeBlackBars
MaxW == 3
MaxH == 3
\* number of download clicks in one behaviour
MaxDownloads == 1
\* the longest ids array testMultipleIds is called with
MaxTestIds == 2
\* the longest run of digits in an input of the resolver
MaxDigits == 10

\* null, where the other values are non-empty strings
Null == <<>>

Min(S) == CHOOSE m \in S : \A n \in S : m <= n
Max(S) == CHOOSE m \in S : \A n \in S : m >= n

RECURSIVE Str(_)
\* the JavaScript string whose characters are the elements of cs
Str(cs) == IF cs = <<>> THEN "" ELSE Head(cs) \o Str(Tail(cs))

RECURSIVE Flatten(_)
\* the concatenation of a sequence of sequences (successive push calls)
Flatten(ss) == IF ss = <<>> THEN <<>> ELSE Head(ss) \o Flatten(Tail(ss))

(***************************************************************************)
(* extractNetflixId: four regular expressions tried in order.              *)
(***************************************************************************)
Digits == {"0", "1", "2", "3", "4", "5", "6", "7", "8", "9"}

LitHost  == <<"n","e","t","f","l","i","x",".","c","o","m","/">>
LitTitle == LitHost \o <<"t","i","t","l","e","/">>
LitWatch == LitHost \o <<"w","a","t","c","h","/">>

\* lit occurs in s starting at position p
MatchLiteral(s, lit, p) ==
    /\ p + Len(lit) - 1 <= Len(s)
    /\ SubSeq(s, p, p + Len(lit) - 1) = lit

RECURSIVE DigitsEnd(_, _)
\* last position of the maximal run of digits of s that starts at p: (\d+) is greedy
DigitsEnd(s, p) ==
    IF p + 1 <= Len(s) /\ s[p + 1] \in Digits THEN DigitsEnd(s, p + 1) ELSE p

\* /lit(\d+)/ : the leftmost occurrence of lit that is followed by a digit
MatchPrefixed(s, lit) ==
    LET P == {p \in 1..Len(s) : /\ MatchLiteral(s, lit, p)
                                /\ p + Len(lit) <= Len(s)
                                /\ s[p + Len(lit)] \in Digits}
    IN  IF P = {} THEN Null
        ELSE LET d == Min(P) + Len(lit) IN SubSeq(s, d, DigitsEnd(s, d))

\* /netflix\.com\/.*\/(\d+)/ : .* is greedy, so the last "/" followed by a digit decides
MatchGeneric(s) ==
    LET Q(p) == {q \in (p + Len(LitHost))..(Len(s) - 1) :
                    s[q] = "/" /\ s[q + 1] \in Digits}
        P == {p \in 1..Len(s) : MatchLiteral(s, LitHost, p) /\ Q(p) # {}}
    IN  IF P = {} THEN Null
        ELSE LET d == Max(Q(Min(P))) + 1 IN SubSeq(s, d, DigitsEnd(s, d))

\* /^(\d+)$/
MatchBare(s) ==
    IF s # <<>> /\ \A k \in 1..Len(s) : s[k] \in Digits THEN s ELSE Null

extractNetflixId(url) ==
    IF MatchPrefixed(url, LitTitle) # Null THEN MatchPrefixed(url, LitTitle)
    ELSE IF MatchPrefixed(url, LitWatch) # Null THEN MatchPrefixed(url, LitWatch)
    ELSE IF MatchGeneric(url) # Null THEN MatchGeneric(url)
    ELSE MatchBare(url)

RECURSIVE TrimLeft(_)
TrimLeft(s) == IF s # <<>> /\ Head(s) = " " THEN TrimLeft(Tail(s)) ELSE s

RECURSIVE TrimRight(_)
TrimRight(s) ==
    IF s # <<>> /\ s[Len(s)] = " " THEN TrimRight(SubSeq(s, 1, Len(s) - 1)) ELSE s

\* String.prototype.trim on the value of the input field
trim(s) == TrimRight(TrimLeft(s))

\* values of the #netflixUrl field at the moment fetchThumbnails reads it
Inputs ==
    { <<>>,
      <<" ", " ">>,
      <<"a", "b", "c">>,
      <<"8","0","0","5","7","2","8","1">>,
      <<" ">> \o LitTitle \o <<"7","0","1","3","6","1","2","0">> }

(***************************************************************************)
(* getNetflixThumbnails and extractFromNetflixPage.                        *)
(* A host is kept as the list of its labels, i.e. as host.split('.').      *)
(* A descriptor keeps the fields that some handler reads back: id, url,    *)
(* netflixId, type and source.                                             *)
(***************************************************************************)
cdnHosts ==
    << <<"occ-0-1168-299", "1", "nflxso", "net">>,
       <<"occ-0-3662-3647", "1", "nflxso", "net">>,
       <<"occ-0-2706-2705", "1", "nflxso", "net">>,
       <<"occ-0-2153-3934", "1", "nflxso", "net">>,
       <<"occ-0-4857-395", "1", "nflxso", "net">> >>

RECURSIVE JoinDots(_)
\* the host name whose split('.') is labels
JoinDots(labels) ==
    IF Len(labels) = 1 THEN labels[1]
    ELSE labels[1] \o "." \o JoinDots(Tail(labels))

resolutions ==
    << [width |-> 1920, height |-> 1080, name |-> "Full HD",   path |-> "w1920"],
       [width |-> 1280, height |-> 720,  name |-> "HD",        path |-> "w1280"],
       [width |-> 854,  height |-> 480,  name |-> "SD",        path |-> "w854"],
       [width |-> 640,  height |-> 360,  name |-> "Small",     path |-> "w640"],
       [width |-> 300,  height |-> 169,  name |-> "Thumbnail", path |-> "w300"] >>

\* the five URL templates of one (host, resolution) pair, in array order
patterns(host, netflixId) ==
    << "https://" \o host \o "/dnm/api/v6/6AYY37jfdO6hpXcMjf9Yu5cnmO0/AAAABQ" \o netflixId,
       "https://" \o host \o "/dnm/api/v6/E8vDc_W8CLv7-yMQu8KMEC7Rrr8/AAAABQ" \o netflixId,
       "https://" \o host \o "/dnm/api/v6/6gmvu2hxdfnQ55LZZjyzYR4kzGk/AAAABQ" \o netflixId,
       "https://" \o host \o "/art/2/" \o netflixId,
       "https://" \o host \o "/art/full/" \o netflixId >>

\* the id of a CDN descriptor: `${netflixId}_${host.split('.')[1]}_${res.name}_${index}`
CdnId(netflixId, labels, res, index) ==
    netflixId \o "_" \o labels[2] \o "_" \o res.name \o "_" \o ToString(index)

\* the part of the cross product the model instantiates: the first MaxHosts
\* hosts, the first resolution and the first pattern of each pair
GenHosts == SubSeq(cdnHosts, 1, MaxHosts)
GenResolutions == SubSeq(resolutions, 1, 1)
GenPatterns(host, netflixId) == SubSeq(patterns(host, netflixId), 1, 1)

\* Method 1: one descriptor per host, resolution and pattern, hosts outermost
CdnThumbnails(netflixId) ==
    Flatten([i \in 1..Len(GenHosts) |->
      Flatten([j \in 1..Len(GenResolutions) |->
        [p \in 1..Len(GenPatterns("", netflixId)) |->
          LET labels == GenHosts[i]
              res == GenResolutions[j]
              index == p - 1
          IN  [id |-> CdnId(netflixId, labels, res, index),
               url |-> GenPatterns(JoinDots(labels), netflixId)[p],
               netflixId |-> netflixId,
               type |-> IF index = 0 THEN "main"
                        ELSE IF index = 1 THEN "hero" ELSE "variant",
               source |-> "netflix_cdn"]]])])

alternativeSources ==
    << [baseUrl |-> "https://image.tmdb.org/t/p/",
        sizes |-> <<"w500", "w780", "w1280", "original">>,
        name |-> "TMDB", lower |-> "tmdb"],
       [baseUrl |-> "https://img.omdbapi.com/",
        sizes |-> <<"300", "500">>,
        name |-> "OMDB", lower |-> "omdb"] >>

\* the model instantiates the first size of the first alternative source
GenSources == SubSeq(alternativeSources, 1, 1)
GenSizes(source) == SubSeq(source.sizes, 1, 1)

\* Method 2: one descriptor per alternative source and size
AlternativeThumbnails(netflixId) ==
    Flatten([s \in 1..Len(GenSources) |->
      [z \in 1..Len(GenSizes(GenSources[s])) |->
        LET source == GenSources[s]
            size == GenSizes(source)[z]
            index == z - 1
        IN  [id |-> netflixId \o "_" \o source.name \o "_" \o size \o "_" \o ToString(index),
             url |-> source.baseUrl \o size \o "/" \o netflixId \o ".jpg",
             netflixId |-> netflixId,
             type |-> "alternative",
             source |-> source.lower]]])

commonPrefixes == <<"AAAABQ", "AAAAFQ", "AAAABg", "AAAABY">>

pathVariants ==
    << "/dnm/api/v6/6AYY37jfdO6hpXcMjf9Yu5cnmO0/",
       "/dnm/api/v6/E8vDc_W8CLv7-yMQu8KMEC7Rrr8/",
       "/dnm/api/v6/6gmvu2hxdfnQ55LZZjyzYR4kzGk/",
       "/dnm/api/v6/BfYvu4-OEQ4e5FBDU0KdLJpBM_c/" >>

extractHosts == <<"occ-0-1168-299.1.nflxso.net", "occ-0-3662-3647.1.nflxso.net">>

\* the model instantiates the first host, path and prefix
GenExtractHosts == SubSeq(extractHosts, 1, 1)
GenPaths == SubSeq(pathVariants, 1, 1)
GenPrefixes == SubSeq(commonPrefixes, 1, 1)

\* Method 3: one descriptor per host, path and prefix
extractFromNetflixPage(netflixId) ==
    Flatten([h \in 1..Len(GenExtractHosts) |->
      Flatten([p \in 1..Len(GenPaths) |->
        [x \in 1..Len(GenPrefixes) |->
          [id |-> netflixId \o "_extracted_" \o ToString(h - 1) \o "_"
                    \o ToString(p - 1) \o "_" \o ToString(x - 1),
           url |-> "https://" \o GenExtractHosts[h] \o GenPaths[p]
                    \o GenPrefixes[x] \o netflixId \o ".jpg",
           netflixId |-> netflixId,
           type |-> "extracted",
           source |-> "extracted"]]])])

getNetflixThumbnails(netflixId) ==
    CdnThumbnails(netflixId) \o AlternativeThumbnails(netflixId)
        \o extractFromNetflixPage(netflixId)

(***************************************************************************)
(* State.                                                                  *)
(***************************************************************************)
VARIABLES
    isProcessing,   \* this.isProcessing
    genId,          \* the identifier whose getNetflixThumbnails is awaited, or Null
    thumbnails,     \* this.thumbnails
    grid,           \* the children of #thumbnailsGrid, in DOM order
    gridGen,        \* how many times displayThumbnails has rebuilt the grid
    tests,          \* the testAndFilterImages invocations waiting in Promise.all
    resolved,       \* the array the last finished Promise.all resolved to
    notification,   \* the notification on the page (showNotification keeps one)
    fetches         \* fetchThumbnails calls that reached generation

pipelineVars ==
    <<isProcessing, genId, thumbnails, grid, gridGen, tests, resolved,
      notification, fetches>>

NoNotification == [type |-> "none", message |-> ""]
showError(message) == [type |-> "error", message |-> message]
showSuccess(message) == [type |-> "success", message |-> message]

NoResolved == [gen |-> 0, images |-> <<>>, values |-> <<>>, loadedUrls |-> {}]

(***************************************************************************)
(* displayThumbnails, createThumbnailElement, testAndFilterImages.         *)
(***************************************************************************)
\* the .thumbnail-item built for one descriptor: the image carries the URL in
\* data-src, the checkbox and the buttons carry the id, the item starts hidden
createThumbnailElement(thumbnail, index) ==
    [thumbnailId |-> thumbnail.id,
     dataSrc |-> thumbnail.url,
     src |-> "data:image/svg+xml",
     display |-> "none"]

\* the grid displayThumbnails builds from this.thumbnails
displayThumbnails(thumbs) ==
    [k \in 1..Len(thumbs) |-> createThumbnailElement(thumbs[k], k - 1)]

\* testAndFilterImages up to its await: one pending promise per .thumbnail-image
\* of the document, each test image loading the data-src of its own image
testAndFilterImages(g, gen) ==
    [gen |-> gen,
     images |-> [k \in 1..Len(g) |-> g[k].dataSrc],
     promises |-> [k \in 1..Len(g) |-> "pending"],
     loadedCount |-> 0,
     totalCount |-> Len(g),
     loadedUrls |-> {}]

\* testImg.onload of the k-th promise, on the invocation's own counters
onloadTest(t, k) ==
    [t EXCEPT !.promises[k] = "true",
              !.loadedCount = @ + 1,
              !.loadedUrls = @ \cup {t.images[k]}]

\* testImg.onerror of the k-th promise
onerrorTest(t, k) ==
    [t EXCEPT !.promises[k] = "false", !.loadedCount = @ + 1]

\* a grid that shows loaded images in the order their probes complete
onloadGridAppend(g, t, k) ==
    [g EXCEPT ![t.loadedCount + 1].src = t.images[k],
              ![t.loadedCount + 1].display = "block"]

\* testImg.onload on the grid: img is the image the promise was created for
onloadGrid(g, t, k) ==
    [g EXCEPT ![k].src = t.images[k], ![k].display = "block"]

\* testImg.onerror on the grid
onerrorGrid(g, t, k) ==
    [g EXCEPT ![k].display = "none"]

\* document.querySelectorAll('.thumbnail-item[style*="block"]').length
workingImages(g) == Cardinality({k \in 1..Len(g) : g[k].display = "block"})

\* the summary testAndFilterImages shows after Promise.all
summary(g) ==
    IF workingImages(g) = 0
    THEN showError("No working thumbnail URLs found for this Netflix ID. Please try a different ID.")
    ELSE showSuccess("Found " \o ToString(workingImages(g)) \o " working thumbnails!")

RemoveAt(seq, i) == SubSeq(seq, 1, i - 1) \o SubSeq(seq, i + 1, Len(seq))

(***************************************************************************)
(* fetchThumbnails.                                                        *)
(***************************************************************************)
\* fetchThumbnails while isProcessing is set: the first line returns
FetchBusy(v) ==
    /\ isProcessing
    /\ UNCHANGED pipelineVars

\* fetchThumbnails with an empty (after trim) input field
FetchEmpty(v) ==
    /\ ~isProcessing
    /\ trim(v) = <<>>
    /\ notification' = showError("Please enter a Netflix URL or Movie ID")
    /\ UNCHANGED <<isProcessing, genId, thumbnails, grid, gridGen, tests,
                   resolved, fetches>>

\* a fetchThumbnails that sets isProcessing before it looks at the input
FetchInvalidSetsProcessing(v) ==
    /\ ~isProcessing
    /\ trim(v) # <<>>
    /\ extractNetflixId(trim(v)) = Null
    /\ isProcessing' = TRUE
    /\ notification' = showError("Invalid Netflix URL or ID format")
    /\ UNCHANGED <<genId, thumbnails, grid, gridGen, tests, resolved, fetches>>

\* fetchThumbnails with an input no pattern matches
FetchInvalid(v) ==
    /\ ~isProcessing
    /\ trim(v) # <<>>
    /\ extractNetflixId(trim(v)) = Null
    /\ notification' = showError("Invalid Netflix URL or ID format")
    /\ UNCHANGED <<isProcessing, genId, thumbnails, grid, gridGen, tests,
                   resolved, fetches>>

\* a fetchThumbnails without its first line
FetchStartUnguarded(v) ==
    /\ fetches < MaxFetches
    /\ trim(v) # <<>>
    /\ extractNetflixId(trim(v)) # Null
    /\ isProcessing' = TRUE
    /\ genId' = extractNetflixId(trim(v))
    /\ fetches' = fetches + 1
    /\ UNCHANGED <<thumbnails, grid, gridGen, tests, resolved, notification>>

\* fetchThumbnails up to the await of getNetflixThumbnails
FetchStart(v) ==
    /\ ~isProcessing
    /\ fetches < MaxFetches
    /\ trim(v) # <<>>
    /\ extractNetflixId(trim(v)) # Null
    /\ isProcessing' = TRUE
    /\ genId' = extractNetflixId(trim(v))
    /\ fetches' = fetches + 1
    /\ UNCHANGED <<thumbnails, grid, gridGen, tests, resolved, notification>>

\* getNetflixThumbnails resolves: the list is stored, the grid rebuilt, the
\* probes of the new grid started, and isProcessing cleared
FetchDone ==
    /\ genId # Null
    /\ LET thumbs == getNetflixThumbnails(Str(genId))
           g == displayThumbnails(thumbs)
       IN  /\ thumbnails' = thumbs
           /\ grid' = g
           /\ gridGen' = gridGen + 1
           /\ tests' = Append(tests, testAndFilterImages(g, gridGen + 1))
    /\ isProcessing' = FALSE
    /\ genId' = Null
    /\ UNCHANGED <<resolved, notification, fetches>>

\* every promise of the invocation has been resolved
AllResolved(t) == \A k \in 1..Len(t.promises) : t.promises[k] # "pending"

\* Promise.all of invocation i resolves and the rest of testAndFilterImages
\* runs, in the microtasks of the callback that resolved the last promise:
\* the summary counts the visible items of the document
TestDone(i, t, g) ==
    /\ resolved' = [gen |-> t.gen,
                    images |-> t.images,
                    values |-> [k \in 1..Len(t.promises) |-> t.promises[k] = "true"],
                    loadedUrls |-> t.loadedUrls]
    /\ notification' = summary(g)
    /\ tests' = RemoveAt(tests, i)

\* the callback left promises of invocation i pending
TestWaits(i, t) ==
    /\ tests' = [tests EXCEPT ![i] = t]
    /\ UNCHANGED <<resolved, notification>>

\* the test image of the k-th promise of invocation i loads
ProbeLoad(i, k) ==
    /\ tests[i].promises[k] = "pending"
    /\ LET t == onloadTest(tests[i], k)
           g == IF tests[i].gen = gridGen THEN onloadGrid(grid, tests[i], k) ELSE grid
       IN  /\ grid' = g
           /\ IF AllResolved(t) THEN TestDone(i, t, g) ELSE TestWaits(i, t)
    /\ UNCHANGED <<isProcessing, genId, thumbnails, gridGen, fetches>>

\* the test image of the k-th promise of invocation i fails to load
ProbeError(i, k) ==
    /\ tests[i].promises[k] = "pending"
    /\ LET t == onerrorTest(tests[i], k)
           g == IF tests[i].gen = gridGen THEN onerrorGrid(grid, tests[i], k) ELSE grid
       IN  /\ grid' = g
           /\ IF AllResolved(t) THEN TestDone(i, t, g) ELSE TestWaits(i, t)
    /\ UNCHANGED <<isProcessing, genId, thumbnails, gridGen, fetches>>

(***************************************************************************)
(* removeBlackBars.  An ImageData is [width, height, data] with data the   *)
(* flat RGBA array; data[idx] of the code is data[idx + 1] here.           *)
(***************************************************************************)
VARIABLES
    image,      \* the ImageData processImage reads from the canvas
    trimPc,     \* "idle", "loaded", "trimmed" or "retrimmed"
    trimmed,    \* what removeBlackBars made of image
    retrimmed   \* what removeBlackBars made of its own output

trimVars == <<image, trimPc, trimmed, retrimmed>>

NoImage == [width |-> 0, height |-> 0, data |-> <<>>]
NoTrim == [none |-> TRUE]

threshold == 30

\* a test that also reads the alpha channel
AboveThresholdWithAlpha(data, idx) ==
    \/ data[idx + 1] > threshold
    \/ data[idx + 2] > threshold
    \/ data[idx + 3] > threshold
    \/ data[idx + 4] > threshold

\* r > threshold || g > threshold || b > threshold, for the pixel at idx
AboveThreshold(data, idx) ==
    \/ data[idx + 1] > threshold
    \/ data[idx + 2] > threshold
    \/ data[idx + 3] > threshold

\* isBlackRow after the inner loop over x
isBlackRow(data, width, y) ==
    \A x \in 0..(width - 1) : ~AboveThreshold(data, (y * width + x) * 4)

\* isBlackCol after the inner loop over y, which runs over topCrop..bottomCrop-1
isBlackCol(data, width, x, topCrop, bottomCrop) ==
    \A y \in topCrop..(bottomCrop - 1) : ~AboveThreshold(data, (y * width + x) * 4)

RECURSIVE TopScan(_, _, _, _)
\* the loop "for y = 0; y < height": topCrop counts rows until the first non-black one
TopScan(data, width, height, y) ==
    IF y < height /\ isBlackRow(data, width, y)
    THEN TopScan(data, width, height, y + 1) ELSE y

RECURSIVE BottomScan(_, _, _)
\* the loop "for y = height - 1; y >= 0": bottomCrop is one past the last non-black row
BottomScan(data, width, y) ==
    IF y >= 0 /\ isBlackRow(data, width, y)
    THEN BottomScan(data, width, y - 1) ELSE y + 1

RECURSIVE LeftScan(_, _, _, _, _)
\* the loop "for x = 0; x < width": leftCrop counts columns until the first non-black one
LeftScan(data, width, x, topCrop, bottomCrop) ==
    IF x < width /\ isBlackCol(data, width, x, topCrop, bottomCrop)
    THEN LeftScan(data, width, x + 1, topCrop, bottomCrop) ELSE x

RECURSIVE RightScanInclusive(_, _, _, _, _)
\* a scan that returns the last non-black column instead of one past it
RightScanInclusive(data, width, x, topCrop, bottomCrop) ==
    IF x >= 0 /\ isBlackCol(data, width, x, topCrop, bottomCrop)
    THEN RightScanInclusive(data, width, x - 1, topCrop, bottomCrop) ELSE x

RECURSIVE RightScan(_, _, _, _, _)
\* the loop "for x = width - 1; x >= 0": rightCrop is one past the last non-black column
RightScan(data, width, x, topCrop, bottomCrop) ==
    IF x >= 0 /\ isBlackCol(data, width, x, topCrop, bottomCrop)
    THEN RightScan(data, width, x - 1, topCrop, bottomCrop) ELSE x + 1

\* new ImageData(sw, sh) throws for a zero size (IndexSizeError) and for a
\* negative one, which converts to an unsigned long above 2^32 - 2^31
ImageDataThrows(sw, sh) == sw <= 0 \/ sh <= 0

\* a copy loop that forgets the left offset
SrcIdxNoLeft(x, y, width, topCrop, leftCrop) ==
    ((y + topCrop) * width + x) * 4

\* srcIdx of the copy loop
SrcIdx(x, y, width, topCrop, leftCrop) ==
    ((y + topCrop) * width + (x + leftCrop)) * 4

\* a copy loop that copies r, g and b and leaves every pixel opaque
CopyPixelsOpaque(data, width, croppedWidth, croppedHeight, topCrop, leftCrop) ==
    [n \in 1..(croppedWidth * croppedHeight * 4) |->
        LET dest == (n - 1) \div 4
            c == (n - 1) % 4
            x == dest % croppedWidth
            y == dest \div croppedWidth
        IN  IF c = 3 THEN 255
            ELSE data[SrcIdx(x, y, width, topCrop, leftCrop) + c + 1]]

\* the copy loop: croppedData.data[destIdx + c] = data[srcIdx + c], c = 0..3
CopyPixels(data, width, croppedWidth, croppedHeight, topCrop, leftCrop) ==
    [n \in 1..(croppedWidth * croppedHeight * 4) |->
        LET dest == (n - 1) \div 4
            c == (n - 1) % 4
            x == dest % croppedWidth
            y == dest \div croppedWidth
        IN  data[SrcIdx(x, y, width, topCrop, leftCrop) + c + 1]]

\* removeBlackBars(imageData): the four scans, the crop rectangle and the copy.
\* threw records that new ImageData refused the computed size; width and
\* height are croppedWidth and croppedHeight either way.
removeBlackBars(imageData) ==
    LET data == imageData.data
        width == imageData.width
        height == imageData.height
        topCrop == TopScan(data, width, height, 0)
        bottomCrop == BottomScan(data, width, height - 1)
        leftCrop == LeftScan(data, width, 0, topCrop, bottomCrop)
        rightCrop == RightScan(data, width, width - 1, topCrop, bottomCrop)
        croppedWidth == rightCrop - leftCrop
        croppedHeight == bottomCrop - topCrop
    IN  [threw |-> ImageDataThrows(croppedWidth, croppedHeight),
         data |-> IF ImageDataThrows(croppedWidth, croppedHeight) THEN NoImage
                  ELSE [width |-> croppedWidth,
                        height |-> croppedHeight,
                        data |-> CopyPixels(data, width, croppedWidth,
                                            croppedHeight, topCrop, leftCrop)],
         width |-> croppedWidth,
         height |-> croppedHeight,
         topCrop |-> topCrop,
         bottomCrop |-> bottomCrop,
         leftCrop |-> leftCrop,
         rightCrop |-> rightCrop]

\* pixel values the decoded images are painted with: a pair is <<one pixel
\* with every colour channel <= 30, one pixel with a colour channel > 30>>
Palettes ==
    { << <<0, 0, 0, 255>>,    <<31, 0, 0, 255>> >>,
      << <<30, 30, 30, 0>>,   <<0, 31, 0, 255>> >>,
      << <<30, 0, 30, 255>>,  <<0, 0, 31, 0>> >>,
      << <<0, 30, 0, 200>>,   <<255, 255, 255, 255>> >> }

\* the ImageData of a w x h image whose pixel n (row-major) is pal[2] where
\* mask[n] holds and pal[1] elsewhere
MakeImage(w, h, pal, mask) ==
    [width |-> w,
     height |-> h,
     data |-> [n \in 1..(w * h * 4) |->
                 (IF mask[(n - 1) \div 4] THEN pal[2] ELSE pal[1])[((n - 1) % 4) + 1]]]

\* processImage hands the decoded image to removeBlackBars
Trim ==
    /\ trimPc = "loaded"
    /\ trimmed' = removeBlackBars(image)
    /\ trimPc' = "trimmed"
    /\ UNCHANGED <<image, retrimmed>>

\* removeBlackBars applied to the ImageData it returned
Retrim ==
    /\ trimPc = "trimmed"
    /\ ~trimmed.threw
    /\ retrimmed' = removeBlackBars(trimmed.data)
    /\ trimPc' = "retrimmed"
    /\ UNCHANGED <<image, trimmed>>

(***************************************************************************)
(* downloadSelected, downloadAllAsZip, downloadSingle, downloadMultipleAsZip.*)
(* One download call runs at a time; dl is its activation record, pc the   *)
(* await it is suspended at.                                               *)
(***************************************************************************)
VARIABLES
    jsZip,      \* typeof JSZip !== 'undefined': the script of loadJSZip has loaded
    dl,         \* the running (or last finished) download call
    downloads   \* download clicks so far

zipVars == <<jsZip, dl, downloads>>

NoThumbnail == [id |-> "", url |-> "", netflixId |-> "", type |-> "", source |-> ""]
NoBlob == [ext |-> "", name |-> "", content |-> <<>>]

\* Date.now() inside a file name
Now == "now"

IdleDownload ==
    [pc |-> "idle", fn |-> "none", origin |-> "none",
     ids |-> <<>>,              \* thumbnailIds, or the one thumbnailId of downloadSingle
     picked |-> <<>>,           \* data-src of the grid item each id was read from
     i |-> 0,                   \* the loop index of downloadMultipleAsZip
     looped |-> FALSE,          \* the for loop of downloadMultipleAsZip was entered
     thumbnail |-> NoThumbnail, \* the descriptor find returned
     successful |-> 0,
     failed |-> 0,              \* executions of the catch block of the loop
     zip |-> <<>>,              \* the members of the JSZip object
     blob |-> NoBlob,           \* what downloadBlob was called with
     attempts |-> <<>>,         \* the fetch calls downloadSingle has made, in order
     report |-> NoNotification] \* the notification this call showed

\* this.thumbnails.find(t => t.id === thumbnailId): the position of the first
\* descriptor with that id, 0 for undefined
Find(thumbs, thumbnailId) ==
    IF \E k \in 1..Len(thumbs) : thumbs[k].id = thumbnailId
    THEN Min({k \in 1..Len(thumbs) : thumbs[k].id = thumbnailId})
    ELSE 0

\* .thumbnail-item:not([style*="none"]): the positions of the visible items
Visible(g) == {k \in 1..Len(g) : g[k].display # "none"}

\* the members of S in DOM order
InOrder(g, S) ==
    LET In(k) == k \in S IN SelectSeq([k \in 1..Len(g) |-> k], In)

\* the bytes a fetch of url delivers, by way of via
Bytes(url, via) == [from |-> url, via |-> via, width |-> 0, height |-> 0]

\* the JPEG canvas.toBlob makes of the trimmed image of url
CanvasBytes(url, processed) ==
    [from |-> url, via |-> "canvas", width |-> processed.width,
     height |-> processed.height]

\* the decoded images processImage may find behind a URL
ProcessedImages ==
    { MakeImage(2, 2, << <<0, 0, 0, 255>>, <<200, 200, 200, 255>> >>,
                [n \in 0..3 |-> FALSE]),
      MakeImage(2, 2, << <<0, 0, 0, 255>>, <<200, 200, 200, 255>> >>,
                [n \in 0..3 |-> n >= 2]) }

\* zip.file(filename, blob): a member of the same name is replaced
ZipFile(zip, filename, blob, index) ==
    LET member == [filename |-> filename, blob |-> blob, index |-> index] IN
    IF \E m \in 1..Len(zip) : zip[m].filename = filename
    THEN [m \in 1..Len(zip) |->
            IF zip[m].filename = filename THEN member ELSE zip[m]]
    ELSE Append(zip, member)

\* a member name made of the descriptor's fields alone
MemberNameNoIndex(thumbnail, i) ==
    "netflix_" \o thumbnail.netflixId \o "_" \o thumbnail.source \o "_"
        \o thumbnail.type \o ".jpg"

\* the name of the member of loop index i
MemberName(thumbnail, i) ==
    "netflix_" \o thumbnail.netflixId \o "_" \o thumbnail.source \o "_"
        \o thumbnail.type \o "_" \o ToString(i) \o ".jpg"

\* an archive is generated whatever the number of members
NothingProcessedNever(successful) == FALSE

\* successful === 0 after the loop
NothingProcessed(successful) == successful = 0

\* the end of the for loop: the empty-archive error, or on to generateAsync
ZipLoopEnd(d) ==
    IF NothingProcessed(d.successful)
    THEN [d EXCEPT !.pc = "done",
                   !.i = Len(d.ids),
                   !.thumbnail = NoThumbnail,
                   !.report = showError("Failed to create ZIP: No thumbnails could be processed")]
    ELSE [d EXCEPT !.pc = "zgenerate", !.i = Len(d.ids), !.thumbnail = NoThumbnail]

RECURSIVE ZipLoop(_, _, _)
\* the for loop from index i up to its next await: ids find does not know are
\* passed over, the first known one has its test image started
ZipLoop(d, thumbs, i) ==
    IF i >= Len(d.ids) THEN ZipLoopEnd(d)
    ELSE IF Find(thumbs, d.ids[i + 1]) = 0 THEN ZipLoop(d, thumbs, i + 1)
    ELSE [d EXCEPT !.pc = "zprobe",
                   !.i = i,
                   !.thumbnail = thumbs[Find(thumbs, d.ids[i + 1])]]

\* the catch block of the loop body, then the next iteration
ZipItemFailed(d, thumbs) ==
    ZipLoop([d EXCEPT !.failed = @ + 1], thumbs, d.i + 1)

\* zip.file, successful++, then the next iteration
ZipItemAdded(d, thumbs, blob) ==
    ZipLoop([d EXCEPT !.zip = ZipFile(@, MemberName(d.thumbnail, d.i), blob, d.i),
                      !.successful = @ + 1],
            thumbs, d.i + 1)

\* downloadMultipleAsZip(thumbnailIds) up to its first await
downloadMultipleAsZip(origin, thumbnailIds, picked, thumbs, zipLoaded) ==
    LET d == [IdleDownload EXCEPT !.fn = "zip", !.origin = origin,
                                  !.ids = thumbnailIds, !.picked = picked]
    IN  IF ~zipLoaded
        THEN [d EXCEPT !.pc = "done",
                       !.report = showError("ZIP functionality not available. Please refresh the page.")]
        ELSE ZipLoop([d EXCEPT !.looped = TRUE], thumbs, 0)

\* downloadSingle(thumbnailId) up to its first await
downloadSingle(origin, thumbnailId, pickedUrl, thumbs) ==
    LET d == [IdleDownload EXCEPT !.fn = "single", !.origin = origin,
                                  !.ids = <<thumbnailId>>, !.picked = <<pickedUrl>>]
    IN  IF Find(thumbs, thumbnailId) = 0
        THEN [d EXCEPT !.pc = "done"]
        ELSE [d EXCEPT !.pc = "sprobe",
                       !.thumbnail = thumbs[Find(thumbs, thumbnailId)]]

\* the file downloadSingle hands to downloadBlob
SingleBlob(thumbnail, bytes) ==
    [ext |-> ".jpg",
     name |-> "netflix_" \o thumbnail.netflixId \o "_" \o thumbnail.source \o "_"
                \o thumbnail.type \o "_" \o Now,
     content |-> <<bytes>>]

\* downloadSingle after processedBlob is there
SingleDone(d, bytes) ==
    [d EXCEPT !.pc = "done",
              !.successful = 1,
              !.blob = SingleBlob(d.thumbnail, bytes),
              !.report = showSuccess("Downloaded: " \o d.thumbnail.id)]

\* the catch block of downloadSingle
SingleFailed(d, message) ==
    [d EXCEPT !.pc = "done",
              !.failed = 1,
              !.report = showError("Failed to download: " \o message)]

\* a downloadSelected that sends every non-empty selection to the archive
downloadSelectedAlwaysZip(selectedIds) ==
    IF Len(selectedIds) = 0 THEN "error" ELSE "zip"

\* the branch downloadSelected takes
downloadSelectedRoute(selectedIds) ==
    IF Len(selectedIds) = 0 THEN "error"
    ELSE IF Len(selectedIds) = 1 THEN "single"
    ELSE "zip"

\* the notification a download step leaves on the page
Shown(d) == IF d.pc = "done" /\ d.report # NoNotification THEN d.report ELSE notification

CanStartDownload == dl.pc \in {"idle", "done"} /\ downloads < MaxDownloads

\* script.onload of loadJSZip
JSZipLoaded ==
    /\ ~jsZip
    /\ jsZip' = TRUE
    /\ UNCHANGED <<dl, downloads, pipelineVars>>

\* a click on "download selected" with the boxes of the visible items in
\* checked ticked
downloadSelected(checked) ==
    /\ CanStartDownload
    /\ LET selected == InOrder(grid, checked)
           selectedIds == [n \in 1..Len(selected) |-> grid[selected[n]].thumbnailId]
           picked == [n \in 1..Len(selected) |-> grid[selected[n]].dataSrc]
           route == downloadSelectedRoute(selectedIds)
       IN  \/ /\ route = "error"
              /\ dl' = [IdleDownload EXCEPT
                          !.pc = "done", !.origin = "selected",
                          !.report = showError("Please select at least one working thumbnail")]
           \/ /\ route = "single"
              /\ dl' = downloadSingle("selected", selectedIds[1], picked[1], thumbnails)
           \/ /\ route = "zip"
              /\ dl' = downloadMultipleAsZip("selected", selectedIds, picked,
                                             thumbnails, jsZip)
    /\ downloads' = downloads + 1
    /\ notification' = Shown(dl')
    /\ UNCHANGED <<jsZip, isProcessing, genId, thumbnails, grid, gridGen, tests,
                   resolved, fetches>>

\* a click on "download all as ZIP"
downloadAllAsZip ==
    /\ CanStartDownload
    /\ LET working == InOrder(grid, Visible(grid))
           workingThumbnails == [n \in 1..Len(working) |-> grid[working[n]].thumbnailId]
           picked == [n \in 1..Len(working) |-> grid[working[n]].dataSrc]
       IN  IF Len(workingThumbnails) = 0
           THEN dl' = [IdleDownload EXCEPT
                          !.pc = "done", !.origin = "all",
                          !.report = showError("No working thumbnails available")]
           ELSE dl' = downloadMultipleAsZip("all", workingThumbnails, picked,
                                            thumbnails, jsZip)
    /\ downloads' = downloads + 1
    /\ notification' = Shown(dl')
    /\ UNCHANGED <<jsZip, isProcessing, genId, thumbnails, grid, gridGen, tests,
                   resolved, fetches>>

\* a click on the Download button of the visible grid item k
ClickDownload(k) ==
    /\ CanStartDownload
    /\ k \in Visible(grid)
    /\ dl' = downloadSingle("button", grid[k].thumbnailId, grid[k].dataSrc, thumbnails)
    /\ downloads' = downloads + 1
    /\ notification' = Shown(dl')
    /\ UNCHANGED <<jsZip, isProcessing, genId, thumbnails, grid, gridGen, tests,
                   resolved, fetches>>

\* a step of the running download: dl becomes d
DownloadStep(d) ==
    /\ dl' = d
    /\ notification' = Shown(d)
    /\ UNCHANGED <<jsZip, downloads, isProcessing, genId, thumbnails, grid, gridGen, tests,
                   resolved, fetches>>

\* a byte fetch that goes to the URL of the descriptor straight away
SingleFetchDirect(d) ==
    [d EXCEPT !.pc = "sdirect", !.attempts = <<"direct">>]

\* the byte fetch of downloadSingle begins: fetch(proxyUrl)
SingleFetch(d) ==
    [d EXCEPT !.pc = "sproxy", !.attempts = <<"proxy">>]

\* the catch block of the proxied fetch: fetch(thumbnail.url)
SingleFallback(d) ==
    [d EXCEPT !.pc = "sdirect", !.attempts = Append(@, "direct")]

\* downloadSingle: the test image loads; removeBlackBars is the state of the
\* #removeBlackBars box when it is read
SingleProbeLoad(removeBars) ==
    /\ dl.pc = "sprobe"
    /\ DownloadStep(IF removeBars THEN [dl EXCEPT !.pc = "sprocess"] ELSE SingleFetch(dl))

\* downloadSingle: the test image fails
SingleProbeError ==
    /\ dl.pc = "sprobe"
    /\ DownloadStep(SingleFailed(dl, "Image not accessible"))

\* downloadSingle: the fetch through the proxy and its blob() succeed
SingleProxyOk ==
    /\ dl.pc = "sproxy"
    /\ DownloadStep(SingleDone(dl, Bytes(dl.thumbnail.url, "proxy")))

\* downloadSingle: the fetch through the proxy throws; the direct fetch starts
SingleProxyFail ==
    /\ dl.pc = "sproxy"
    /\ DownloadStep(SingleFallback(dl))

\* downloadSingle: the direct fetch and its blob() succeed
SingleDirectOk ==
    /\ dl.pc = "sdirect"
    /\ DownloadStep(SingleDone(dl, Bytes(dl.thumbnail.url, "direct")))

\* downloadSingle: the direct fetch throws
SingleDirectFail ==
    /\ dl.pc = "sdirect"
    /\ DownloadStep(SingleFailed(dl, "Failed to fetch"))

\* downloadSingle: processImage decodes img and trims it
SingleProcessLoad(img) ==
    /\ dl.pc = "sprocess"
    /\ LET processed == removeBlackBars(img) IN
       IF processed.threw
       THEN DownloadStep(SingleFailed(dl, "ImageData"))
       ELSE DownloadStep(SingleDone(dl, CanvasBytes(dl.thumbnail.url, processed)))

\* downloadSingle: the image of processImage fails to load
SingleProcessError ==
    /\ dl.pc = "sprocess"
    /\ DownloadStep(SingleFailed(dl, "Failed to load image"))

\* downloadMultipleAsZip: the test image of the current item loads
ZipProbeLoad(removeBars) ==
    /\ dl.pc = "zprobe"
    /\ DownloadStep([dl EXCEPT !.pc = IF removeBars THEN "zprocess" ELSE "zfetch"])

\* downloadMultipleAsZip: the test image of the current item fails
ZipProbeError ==
    /\ dl.pc = "zprobe"
    /\ DownloadStep(ZipItemFailed(dl, thumbnails))

\* downloadMultipleAsZip: fetch and blob() of the current item succeed
ZipFetchOk ==
    /\ dl.pc = "zfetch"
    /\ DownloadStep(ZipItemAdded(dl, thumbnails, Bytes(dl.thumbnail.url, "direct")))

\* downloadMultipleAsZip: fetch of the current item throws
ZipFetchFail ==
    /\ dl.pc = "zfetch"
    /\ DownloadStep(ZipItemFailed(dl, thumbnails))

\* downloadMultipleAsZip: processImage decodes img and trims it
ZipProcessLoad(img) ==
    /\ dl.pc = "zprocess"
    /\ LET processed == removeBlackBars(img) IN
       IF processed.threw
       THEN DownloadStep(ZipItemFailed(dl, thumbnails))
       ELSE DownloadStep(ZipItemAdded(dl, thumbnails,
                                      CanvasBytes(dl.thumbnail.url, processed)))

\* downloadMultipleAsZip: the image of processImage fails to load
ZipProcessError ==
    /\ dl.pc = "zprocess"
    /\ DownloadStep(ZipItemFailed(dl, thumbnails))

\* downloadMultipleAsZip: generateAsync resolves, the archive is downloaded
ZipGenerated ==
    /\ dl.pc = "zgenerate"
    /\ LET netflixId == IF Len(thumbnails) > 0 /\ thumbnails[1].netflixId # ""
                        THEN thumbnails[1].netflixId ELSE "unknown"
       IN  DownloadStep(
             [dl EXCEPT !.pc = "done",
                        !.blob = [ext |-> ".zip",
                                  name |-> "netflix_thumbnails_" \o netflixId \o "_" \o Now,
                                  content |-> dl.zip],
                        !.report = showSuccess("Downloaded " \o ToString(dl.successful)
                                                 \o " working thumbnails as ZIP")])

(***************************************************************************)
(* testMultipleIds, countWorkingThumbnails.  counting is the activation of *)
(* countWorkingThumbnails the loop of testMultipleIds is waiting for; the  *)
(* callbacks of an earlier activation that are still to come change only   *)
(* its own dead closure and are left out.                                  *)
(***************************************************************************)
VARIABLES
    counting,   \* the running (or last returned) countWorkingThumbnails call
    results     \* the results array of testMultipleIds

countVars == <<counting, results>>

NoCount ==
    [pc |-> "idle", id |-> "", urls |-> <<>>, imgs |-> <<>>, timers |-> <<>>,
     promises |-> <<>>, count |-> 0, result |-> 0]

\* countWorkingThumbnails(thumbnails) up to its await: one image and one
\* 5-second timer per descriptor, all started in the same synchronous map
countWorkingThumbnails(id, thumbs) ==
    [pc |-> "waiting",
     id |-> id,
     urls |-> [k \in 1..Len(thumbs) |-> thumbs[k].url],
     imgs |-> [k \in 1..Len(thumbs) |-> "loading"],
     timers |-> [k \in 1..Len(thumbs) |-> "armed"],
     promises |-> [k \in 1..Len(thumbs) |-> "pending"],
     count |-> 0,
     result |-> 0]

\* resolve(value) of the k-th promise: a resolved promise keeps its value
resolve(c, k, value) ==
    IF c.promises[k] = "pending" THEN [c EXCEPT !.promises[k] = value] ELSE c

\* img.onload of the k-th promise
onloadCount(c, k) ==
    resolve([c EXCEPT !.imgs[k] = "loaded", !.count = @ + 1], k, "true")

\* img.onerror of the k-th promise
onerrorCount(c, k) ==
    resolve([c EXCEPT !.imgs[k] = "errored"], k, "false")

\* the setTimeout callback of the k-th promise
ontimeoutCount(c, k) ==
    resolve([c EXCEPT !.timers[k] = "fired"], k, "false")

\* after a callback: when it resolved the last promise, Promise.all resolves,
\* countWorkingThumbnails returns count and testMultipleIds pushes the result,
\* all in the microtasks of that callback
CountStep(c) ==
    IF c.pc = "waiting" /\ AllResolved(c)
    THEN /\ counting' = [c EXCEPT !.pc = "returned", !.result = c.count]
         /\ results' = Append(results, [id |-> c.id, workingCount |-> c.count])
    ELSE /\ counting' = c
         /\ UNCHANGED results

\* one iteration of the loop of testMultipleIds, up to the await inside
\* countWorkingThumbnails
TestId(id) ==
    /\ counting.pc \in {"idle", "returned"}
    /\ Len(results) < MaxTestIds
    /\ counting' = countWorkingThumbnails(Str(id), getNetflixThumbnails(Str(id)))
    /\ UNCHANGED results

\* the image of the k-th descriptor loads
CountLoad(k) ==
    /\ counting.imgs[k] = "loading"
    /\ CountStep(onloadCount(counting, k))

\* the image of the k-th descriptor fails to load
CountError(k) ==
    /\ counting.imgs[k] = "loading"
    /\ CountStep(onerrorCount(counting, k))

\* the 5-second timer of the k-th descriptor fires; timers of the same delay
\* set by the same task fire in the order they were set
CountTimeout(k) ==
    /\ counting.timers[k] = "armed"
    /\ \A j \in 1..(k - 1) : counting.timers[j] = "fired"
    /\ CountStep(ontimeoutCount(counting, k))

(***************************************************************************)
(* extractNetflixId applied to one string.                                 *)
(***************************************************************************)
VARIABLES
    typed,      \* the url argument of extractNetflixId
    resolvePc,  \* "idle", "called" or "returned"
    extracted   \* what extractNetflixId returned

resolveVars == <<typed, resolvePc, extracted>>

RECURSIVE Repeat(_, _)
\* n times the character c
Repeat(c, n) == IF n = 0 THEN <<>> ELSE <<c>> \o Repeat(c, n - 1)

\* what precedes the digits: nothing, the title, watch and generic shapes, a
\* watch URL in front of a title URL, and text no pattern knows
ResolverPrefixes ==
    { <<>>,
      LitTitle,
      LitWatch,
      LitHost \o <<"b", "r", "o", "w", "s", "e", "/">>,
      LitWatch \o Repeat("1", 7) \o <<"?", "u", "=">> \o LitTitle,
      <<"i", "d", "=">> }

\* what follows the digits
ResolverSuffixes == { <<>>, <<"?", "t">>, <<"/", "5">> }

\* the arguments extractNetflixId is tried on
ResolverInputs ==
    { pre \o Repeat("8", n) \o suf :
        pre \in ResolverPrefixes, n \in 0..MaxDigits, suf \in ResolverSuffixes }

\* the call of extractNetflixId
Resolve ==
    /\ resolvePc = "called"
    /\ extracted' = extractNetflixId(typed)
    /\ resolvePc' = "returned"
    /\ UNCHANGED typed

(***************************************************************************)
(* The calls of fetchThumbnails as the page sees them, and the selection.  *)
(* lastCall records the last call made: what the input field held, which   *)
(* return of fetchThumbnails it took, and a bit that flips with each call. *)
(***************************************************************************)
VARIABLES
    selectedThumbnails, \* this.selectedThumbnails
    lastCall            \* the last fetchThumbnails call

callVars == <<selectedThumbnails, lastCall>>

NoCall == [input |-> <<>>, outcome |-> "none", tick |-> FALSE]

\* a call of fetchThumbnails with v in the input field, leaving by outcome
Called(v, outcome) ==
    lastCall' = [input |-> v, outcome |-> outcome, tick |-> ~lastCall.tick]

\* the data-thumbnail-id of the visible items of the grid
VisibleIds(g) == {g[k].thumbnailId : k \in Visible(g)}

\* selectAllThumbnails with the boxes of the visible items in ticked checked
selectAllThumbnails(ticked) ==
    /\ selectedThumbnails' =
          IF ticked = Visible(grid)
          THEN selectedThumbnails \ VisibleIds(grid)
          ELSE selectedThumbnails \cup VisibleIds(grid)
    /\ UNCHANGED lastCall

vars == <<pipelineVars, trimVars, zipVars, countVars, resolveVars, callVars>>

Init ==
    /\ isProcessing = FALSE
    /\ genId = Null
    /\ thumbnails = <<>>
    /\ grid = <<>>
    /\ gridGen = 0
    /\ tests = <<>>
    /\ resolved = NoResolved
    /\ notification = NoNotification
    /\ fetches = 0
    /\ image = NoImage
    /\ trimPc = "idle"
    /\ trimmed = NoTrim
    /\ retrimmed = NoTrim
    /\ jsZip = FALSE
    /\ dl = IdleDownload
    /\ downloads = 0
    /\ counting = NoCount
    /\ results = <<>>
    /\ typed = <<>>
    /\ resolvePc = "idle"
    /\ extracted = Null
    /\ selectedThumbnails = {}
    /\ lastCall = NoCall

Next ==
    \/ \E v \in Inputs : FetchEmpty(v) /\ UNCHANGED <<trimVars, zipVars, countVars, resolveVars, callVars>>
    \/ \E v \in Inputs : FetchInvalid(v) /\ UNCHANGED <<trimVars, zipVars, countVars, resolveVars, callVars>>
    \/ \E v \in Inputs : FetchStart(v) /\ UNCHANGED <<trimVars, zipVars, countVars, resolveVars, callVars>>
    \/ FetchDone /\ UNCHANGED <<trimVars, zipVars, countVars, resolveVars, callVars>>
    \/ \E i \in 1..Len(tests) : \E k \in 1..Len(tests[i].promises) :
          ProbeLoad(i, k) /\ UNCHANGED <<trimVars, zipVars, countVars, resolveVars, callVars>>
    \/ \E i \in 1..Len(tests) : \E k \in 1..Len(tests[i].promises) :
          ProbeError(i, k) /\ UNCHANGED <<trimVars, zipVars, countVars, resolveVars, callVars>>

Spec == Init /\ [][Next]_vars

(***************************************************************************)
(* The trimmer on its own: every small image, trimmed once and again.      *)
(***************************************************************************)
InitTrim ==
    /\ isProcessing = FALSE
    /\ genId = Null
    /\ thumbnails = <<>>
    /\ grid = <<>>
    /\ gridGen = 0
    /\ tests = <<>>
    /\ resolved = NoResolved
    /\ notification = NoNotification
    /\ fetches = 0
    /\ \E w \in 1..MaxW, h \in 1..MaxH, pal \in Palettes :
          \E mask \in [0..(w * h - 1) -> BOOLEAN] :
              image = MakeImage(w, h, pal, mask)
    /\ trimPc = "loaded"
    /\ trimmed = NoTrim
    /\ retrimmed = NoTrim
    /\ jsZip = FALSE
    /\ dl = IdleDownload
    /\ downloads = 0
    /\ counting = NoCount
    /\ results = <<>>
    /\ typed = <<>>
    /\ resolvePc = "idle"
    /\ extracted = Null
    /\ selectedThumbnails = {}
    /\ lastCall = NoCall

NextTrim ==
    \/ Trim /\ UNCHANGED <<pipelineVars, zipVars, countVars, resolveVars, callVars>>
    \/ Retrim /\ UNCHANGED <<pipelineVars, zipVars, countVars, resolveVars, callVars>>

SpecTrim == InitTrim /\ [][NextTrim]_vars

(***************************************************************************)
(* The download handlers, from a page whose batch has been probed: any     *)
(* accepted identifier, any outcome of its probes.  A fetchThumbnails may   *)
(* run while a download is suspended; the probes it starts stay pending.   *)
(***************************************************************************)
AcceptedIds == {extractNetflixId(trim(v)) : v \in {u \in Inputs : trim(u) # <<>>}} \ {Null}

\* the grid of thumbs after its probes ended as loaded tells
ProbedGrid(thumbs, loaded) ==
    [k \in 1..Len(thumbs) |->
        IF loaded[k]
        THEN [createThumbnailElement(thumbs[k], k - 1) EXCEPT
                 !.src = thumbs[k].url, !.display = "block"]
        ELSE createThumbnailElement(thumbs[k], k - 1)]

InitZip ==
    /\ \E id \in AcceptedIds :
          LET thumbs == getNetflixThumbnails(Str(id)) IN
          \E loaded \in [1..Len(thumbs) -> BOOLEAN] :
              /\ thumbnails = thumbs
              /\ grid = ProbedGrid(thumbs, loaded)
              /\ resolved = [gen |-> 1,
                             images |-> [k \in 1..Len(thumbs) |-> thumbs[k].url],
                             values |-> [k \in 1..Len(thumbs) |-> loaded[k]],
                             loadedUrls |-> {thumbs[k].url : k \in {n \in 1..Len(thumbs) : loaded[n]}}]
              /\ notification = summary(ProbedGrid(thumbs, loaded))
    /\ isProcessing = FALSE
    /\ genId = Null
    /\ gridGen = 1
    /\ tests = <<>>
    /\ fetches = 1
    /\ image = NoImage
    /\ trimPc = "idle"
    /\ trimmed = NoTrim
    /\ retrimmed = NoTrim
    /\ jsZip \in BOOLEAN
    /\ dl = IdleDownload
    /\ downloads = 0
    /\ counting = NoCount
    /\ results = <<>>
    /\ typed = <<>>
    /\ resolvePc = "idle"
    /\ extracted = Null
    /\ selectedThumbnails = {}
    /\ lastCall = NoCall

NextZip ==
    \/ JSZipLoaded /\ UNCHANGED <<trimVars, countVars, resolveVars, callVars>>
    \/ \E checked \in SUBSET Visible(grid) : downloadSelected(checked) /\ UNCHANGED <<trimVars, countVars, resolveVars, callVars>>
    \/ downloadAllAsZip /\ UNCHANGED <<trimVars, countVars, resolveVars, callVars>>
    \/ \E k \in 1..Len(grid) : ClickDownload(k) /\ UNCHANGED <<trimVars, countVars, resolveVars, callVars>>
    \/ \E removeBars \in BOOLEAN : SingleProbeLoad(removeBars) /\ UNCHANGED <<trimVars, countVars, resolveVars, callVars>>
    \/ SingleProbeError /\ UNCHANGED <<trimVars, countVars, resolveVars, callVars>>
    \/ SingleProxyOk /\ UNCHANGED <<trimVars, countVars, resolveVars, callVars>>
    \/ SingleProxyFail /\ UNCHANGED <<trimVars, countVars, resolveVars, callVars>>
    \/ SingleDirectOk /\ UNCHANGED <<trimVars, countVars, resolveVars, callVars>>
    \/ SingleDirectFail /\ UNCHANGED <<trimVars, countVars, resolveVars, callVars>>
    \/ \E img \in ProcessedImages : SingleProcessLoad(img) /\ UNCHANGED <<trimVars, countVars, resolveVars, callVars>>
    \/ SingleProcessError /\ UNCHANGED <<trimVars, countVars, resolveVars, callVars>>
    \/ \E removeBars \in BOOLEAN : ZipProbeLoad(removeBars) /\ UNCHANGED <<trimVars, countVars, resolveVars, callVars>>
    \/ ZipProbeError /\ UNCHANGED <<trimVars, countVars, resolveVars, callVars>>
    \/ ZipFetchOk /\ UNCHANGED <<trimVars, countVars, resolveVars, callVars>>
    \/ ZipFetchFail /\ UNCHANGED <<trimVars, countVars, resolveVars, callVars>>
    \/ \E img \in ProcessedImages : ZipProcessLoad(img) /\ UNCHANGED <<trimVars, countVars, resolveVars, callVars>>
    \/ ZipProcessError /\ UNCHANGED <<trimVars, countVars, resolveVars, callVars>>
    \/ ZipGenerated /\ UNCHANGED <<trimVars, countVars, resolveVars, callVars>>
    \/ \E v \in Inputs : FetchStart(v) /\ UNCHANGED <<trimVars, zipVars, countVars, resolveVars, callVars>>
    \/ FetchDone /\ UNCHANGED <<trimVars, zipVars, countVars, resolveVars, callVars>>

SpecZip == InitZip /\ [][NextZip]_vars

(***************************************************************************)
(* testMultipleIds on its own, over the accepted identifiers.              *)
(***************************************************************************)
NextCount ==
    \/ \E id \in AcceptedIds : TestId(id) /\ UNCHANGED <<pipelineVars, trimVars, zipVars, resolveVars, callVars>>
    \/ \E k \in 1..Len(counting.imgs) :
          CountLoad(k) /\ UNCHANGED <<pipelineVars, trimVars, zipVars, resolveVars, callVars>>
    \/ \E k \in 1..Len(counting.imgs) :
          CountError(k) /\ UNCHANGED <<pipelineVars, trimVars, zipVars, resolveVars, callVars>>
    \/ \E k \in 1..Len(counting.imgs) :
          CountTimeout(k) /\ UNCHANGED <<pipelineVars, trimVars, zipVars, resolveVars, callVars>>

SpecCount == Init /\ [][NextCount]_vars

(***************************************************************************)
(* The resolver on its own.                                                *)
(***************************************************************************)
InitResolve ==
    /\ isProcessing = FALSE
    /\ genId = Null
    /\ thumbnails = <<>>
    /\ grid = <<>>
    /\ gridGen = 0
    /\ tests = <<>>
    /\ resolved = NoResolved
    /\ notification = NoNotification
    /\ fetches = 0
    /\ image = NoImage
    /\ trimPc = "idle"
    /\ trimmed = NoTrim
    /\ retrimmed = NoTrim
    /\ jsZip = FALSE
    /\ dl = IdleDownload
    /\ downloads = 0
    /\ counting = NoCount
    /\ results = <<>>
    /\ typed \in ResolverInputs
    /\ resolvePc = "called"
    /\ extracted = Null
    /\ selectedThumbnails = {}
    /\ lastCall = NoCall

NextResolve ==
    Resolve /\ UNCHANGED <<pipelineVars, trimVars, zipVars, countVars, callVars>>

SpecResolve == InitResolve /\ [][NextResolve]_vars

(***************************************************************************)
(* fetchThumbnails called again and again, on a fresh page or on one whose *)
(* first batch has been probed, with the selection changing in between.    *)
(* The probes a new batch starts stay pending.                             *)
(***************************************************************************)
InitFetch == Init \/ InitZip

NextFetch ==
    \/ \E v \in Inputs :
          FetchBusy(v) /\ Called(v, "busy")
            /\ UNCHANGED <<selectedThumbnails, trimVars, zipVars, countVars, resolveVars>>
    \/ \E v \in Inputs :
          FetchEmpty(v) /\ Called(v, "empty")
            /\ UNCHANGED <<selectedThumbnails, trimVars, zipVars, countVars, resolveVars>>
    \/ \E v \in Inputs :
          FetchInvalid(v) /\ Called(v, "invalid")
            /\ UNCHANGED <<selectedThumbnails, trimVars, zipVars, countVars, resolveVars>>
    \/ \E v \in Inputs :
          FetchStart(v) /\ Called(v, "generating")
            /\ UNCHANGED <<selectedThumbnails, trimVars, zipVars, countVars, resolveVars>>
    \/ FetchDone /\ UNCHANGED <<trimVars, zipVars, countVars, resolveVars, callVars>>
    \/ \E ticked \in SUBSET Visible(grid) :
          selectAllThumbnails(ticked)
            /\ UNCHANGED <<pipelineVars, trimVars, zipVars, countVars, resolveVars>>

SpecFetch == InitFetch /\ [][NextFetch]_vars


(***************************************************************************)
(* Progress.  What the code schedules itself is certain to run: the        *)
(* one-second setTimeout that ends getNetflixThumbnails and the 5-second   *)
(* timers of countWorkingThumbnails.  Whether an image ever fires load or  *)
(* error is up to the network, and nothing is assumed about it.            *)
(***************************************************************************)
GenerationEnds == FetchDone /\ UNCHANGED <<trimVars, zipVars, countVars, resolveVars, callVars>>

SpecLive == Init /\ [][Next]_vars /\ WF_vars(GenerationEnds)

TimerFires ==
    \E k \in 1..Len(counting.timers) :
        CountTimeout(k) /\ UNCHANGED <<pipelineVars, trimVars, zipVars, resolveVars, callVars>>

SpecCountLive == Init /\ [][NextCount]_vars /\ WF_vars(TimerFires)

(***************************************************************************)
(* Properties of the generator and of the probes.                          *)
(***************************************************************************)
\* C1: no two descriptors of this.thumbnails (one generated batch) share an id.
C1_UniqueIds ==
    \A i, j \in 1..Len(thumbnails) :
        i # j => thumbnails[i].id # thumbnails[j].id

\* C3: whatever the order of the onload / onerror callbacks, the grid lists
\* the candidates in the order of this.thumbnails, an item is shown only with
\* the image of its own candidate, and position k of the array Promise.all
\* resolves to reports the probe of the k-th candidate.
C3_GenerationOrder ==
    /\ Len(grid) = Len(thumbnails)
    /\ \A k \in 1..Len(grid) :
          /\ grid[k].thumbnailId = thumbnails[k].id
          /\ grid[k].dataSrc = thumbnails[k].url
          /\ grid[k].display = "block" => grid[k].src = thumbnails[k].url
    /\ \A i \in 1..Len(tests) : \A k \in 1..Len(tests[i].promises) :
          /\ (tests[i].promises[k] = "true") = (tests[i].images[k] \in tests[i].loadedUrls)
          /\ tests[i].gen = gridGen =>
                /\ tests[i].images[k] = thumbnails[k].url
                /\ (grid[k].display = "block") = (tests[i].promises[k] = "true")
    /\ \A k \in 1..Len(resolved.values) :
          resolved.values[k] = (resolved.images[k] \in resolved.loadedUrls)
    /\ resolved.gen = gridGen /\ gridGen > 0 =>
          /\ Len(resolved.values) = Len(thumbnails)
          /\ \A k \in 1..Len(thumbnails) :
                /\ resolved.images[k] = thumbnails[k].url
                /\ resolved.values[k] = (grid[k].display = "block")

\* the last candidate's probe has loaded while the first one's is still
\* pending, and the probe of a candidate in between has failed
C3_Witness ==
    \E i \in 1..Len(tests) :
        LET n == Len(tests[i].promises) IN
        /\ tests[i].gen = gridGen
        /\ n >= 3
        /\ tests[i].promises[1] = "pending"
        /\ tests[i].promises[2] = "false"
        /\ tests[i].promises[n] = "true"
        /\ grid[n].display = "block"
        /\ grid[1].display = "none"

(***************************************************************************)
(* Properties of removeBlackBars, stated on the pixels of the image.       *)
(***************************************************************************)
\* channel c (0 = r, 1 = g, 2 = b, 3 = alpha) of the pixel in column x, row y
Channel(img, x, y, c) == img.data[(y * img.width + x) * 4 + c + 1]

BlankPixel(img, x, y) == \A c \in 0..2 : Channel(img, x, y, c) <= 30
BlankRow(img, y) == \A x \in 0..(img.width - 1) : BlankPixel(img, x, y)
BlankCol(img, x) == \A y \in 0..(img.height - 1) : BlankPixel(img, x, y)
AllBlank(img) == \A y \in 0..(img.height - 1) : BlankRow(img, y)

NoBlankBorder(img) ==
    /\ ~BlankRow(img, 0)
    /\ ~BlankRow(img, img.height - 1)
    /\ ~BlankCol(img, 0)
    /\ ~BlankCol(img, img.width - 1)

\* the number of consecutive blank rows counted from row 0
LeadingBlankRows(img) ==
    Max({k \in 0..img.height : \A y \in 0..(k - 1) : BlankRow(img, y)})

HasTrimmed == trimPc \in {"trimmed", "retrimmed"}

\* C4: the width and height removeBlackBars computes, and returns with the
\* cropped ImageData, are at most those of the input, and an image none of
\* whose four border rows and columns is blank (r, g, b <= 30 throughout) is
\* returned with exactly the input width and height.
C4_TrimWithinInput ==
    HasTrimmed =>
        /\ trimmed.width <= image.width
        /\ trimmed.height <= image.height
        /\ ~trimmed.threw =>
              /\ trimmed.data.width = trimmed.width
              /\ trimmed.data.height = trimmed.height
        /\ NoBlankBorder(image) =>
              /\ ~trimmed.threw
              /\ trimmed.width = image.width
              /\ trimmed.height = image.height

\* an image of at least 2 x 2 with a blank pixel but no blank border has been trimmed
C4_Witness ==
    /\ trimPc = "trimmed"
    /\ image.width >= 2
    /\ image.height >= 2
    /\ NoBlankBorder(image)
    /\ \E x \in 0..(image.width - 1), y \in 0..(image.height - 1) :
          BlankPixel(image, x, y)
    /\ trimmed.width = image.width
    /\ trimmed.height = image.height

\* C5: for an image of positive width and height, removeBlackBars never
\* computes a cropped width or height that is zero or negative (an all-blank
\* image is detected instead).
C5_NeverEmptyCrop ==
    (HasTrimmed /\ image.width > 0 /\ image.height > 0) =>
        (trimmed.width > 0 /\ trimmed.height > 0)

\* C6: for an image with a non-blank pixel removeBlackBars returns, and
\* applied to its own output it crops nothing: topCrop = leftCrop = 0,
\* bottomCrop = height, rightCrop = width, same width, height and pixels.
C6_TrimIdempotent ==
    /\ (HasTrimmed /\ ~AllBlank(image)) => ~trimmed.threw
    /\ trimPc = "retrimmed" =>
          /\ ~retrimmed.threw
          /\ retrimmed.topCrop = 0
          /\ retrimmed.leftCrop = 0
          /\ retrimmed.bottomCrop = trimmed.height
          /\ retrimmed.rightCrop = trimmed.width
          /\ retrimmed.width = trimmed.width
          /\ retrimmed.height = trimmed.height
          /\ retrimmed.data = trimmed.data

\* the output of a pass that cropped rows and columns has been trimmed again
C6_Witness ==
    /\ trimPc = "retrimmed"
    /\ trimmed.width < image.width
    /\ trimmed.height < image.height
    /\ trimmed.leftCrop > 0
    /\ retrimmed.data = trimmed.data

\* C7: topCrop is the number of consecutive rows from row 0 all of whose
\* pixels have r, g and b <= 30 (alpha ignored); when the bottom row and the
\* first and last column are not blank, the output is W wide and H - topCrop
\* high.
C7_TopCropCountsBlankRows ==
    HasTrimmed =>
        /\ trimmed.topCrop = LeadingBlankRows(image)
        /\ ( /\ ~BlankRow(image, image.height - 1)
             /\ ~BlankCol(image, 0)
             /\ ~BlankCol(image, image.width - 1) ) =>
              /\ ~trimmed.threw
              /\ trimmed.width = image.width
              /\ trimmed.height = image.height - LeadingBlankRows(image)

\* a top band whose pixels have a channel of exactly 30 and alpha 255 was cut
\* from an image with no other blank border
C7_Witness ==
    /\ trimPc = "trimmed"
    /\ image.width >= 2
    /\ image.height >= 2
    /\ Channel(image, 0, 0, 0) = 30
    /\ Channel(image, 0, 0, 3) = 255
    /\ trimmed.topCrop >= 1
    /\ trimmed.width = image.width
    /\ trimmed.height = image.height - trimmed.topCrop
    /\ ~trimmed.threw

(***************************************************************************)
(* Properties of the download handlers.                                    *)
(***************************************************************************)
\* the download call is suspended on the current item of the archive loop
InZipItem == dl.pc \in {"zprobe", "zfetch", "zprocess"}

\* the download call is suspended inside downloadSingle
InSingle == dl.pc \in {"sprobe", "sproxy", "sdirect", "sprocess"}

\* C2: the URL probed, fetched and stored for a requested id is the URL of
\* the descriptor the caller selected in the grid, and every member of the
\* ZIP was added for its own loop index after its own probe and fetch / trim.
C2_NoSubstitution ==
    /\ InZipItem => dl.thumbnail.url = dl.picked[dl.i + 1]
    /\ InSingle => dl.thumbnail.url = dl.picked[1]
    /\ \A m \in 1..Len(dl.zip) :
          dl.zip[m].blob.from = dl.picked[dl.zip[m].index + 1]
    /\ (dl.fn = "single" /\ dl.blob # NoBlob) =>
          dl.blob.content[1].from = dl.picked[1]

\* C8: when the loop of downloadMultipleAsZip has ended, every requested id
\* was attempted: the items that succeeded plus the items that failed are as
\* many as the ids requested.
C8_CountsAddUp ==
    (dl.fn = "zip" /\ dl.looped /\ dl.pc \in {"zgenerate", "done"}) =>
        dl.successful + dl.failed = Len(dl.ids)

C11_MemberNamesDistinct ==
    dl.fn = "zip" =>
        /\ \A m, n \in 1..Len(dl.zip) :
              dl.zip[m].filename = dl.zip[n].filename => m = n
        /\ Len(dl.zip) = dl.successful

\* two members of one archive whose descriptors agree on netflixId, source
\* and type, so that their names differ in the loop index only
C11_Witness ==
    /\ dl.fn = "zip"
    /\ dl.pc = "done"
    /\ \E m, n \in 1..Len(dl.zip) :
         /\ m # n
         /\ Find(thumbnails, dl.ids[dl.zip[m].index + 1]) # 0
         /\ Find(thumbnails, dl.ids[dl.zip[n].index + 1]) # 0
         /\ MemberNameNoIndex(thumbnails[Find(thumbnails, dl.ids[dl.zip[m].index + 1])], 0)
              = MemberNameNoIndex(thumbnails[Find(thumbnails, dl.ids[dl.zip[n].index + 1])], 0)

(***************************************************************************)
(* Properties of the probe batches.                                        *)
(***************************************************************************)
\* the promises of c that were resolved true
ResolvedTrue(c) == {k \in 1..Len(c.promises) : c.promises[k] = "true"}

\* in the grid a batch was started on, an item is visible iff its own probe
\* loaded, and every callback ran once: loadedCount counts the resolved
\* promises
GridAcceptedIffLoaded ==
    /\ \A i \in 1..Len(tests) :
          /\ tests[i].loadedCount
                = Cardinality({k \in 1..Len(tests[i].promises) :
                                  tests[i].promises[k] # "pending"})
          /\ tests[i].gen = gridGen =>
                \A k \in 1..Len(grid) :
                    grid[k].display = "block" <=> tests[i].promises[k] = "true"
    /\ (resolved.gen = gridGen /\ gridGen > 0) =>
          \A k \in 1..Len(grid) :
              grid[k].display = "block" <=> resolved.values[k]

\* C12: every candidate of a probe batch is probed once, and it is accepted
\* (its grid item visible, or counted in the number countWorkingThumbnails
\* returns) iff its load succeeded: a candidate whose probe was resolved by
\* an error or by the timeout is never accepted.
C12_AcceptedIffLoaded ==
    /\ GridAcceptedIffLoaded
    /\ counting.pc = "returned" =>
          counting.result = Cardinality(ResolvedTrue(counting))

\* the step in which testAndFilterImages of a batch finishes, every one of
\* its probes having failed
BatchEndsAllFailed ==
    /\ Len(tests') = Len(tests) - 1
    /\ \A k \in 1..Len(resolved'.values) : ~resolved'.values[k]

\* C13: when every probe of a batch has failed, testAndFilterImages shows the
\* error 'No working thumbnail URLs found...', and nothing else happens:
\* this.thumbnails and isProcessing are as they were, so that a later
\* fetchThumbnails can run.
C13_AllProbesFailedReported ==
    [][BatchEndsAllFailed =>
          /\ notification' = showError("No working thumbnail URLs found for this Netflix ID. Please try a different ID.")
          /\ thumbnails' = thumbnails
          /\ isProcessing' = isProcessing]_vars

\* C14: every probe batch ends: each testAndFilterImages that is waiting for
\* its promises eventually gets through Promise.all and shows its summary,
\* whatever the images do.
C14_BatchCompletes == (tests # <<>>) ~> (tests = <<>>)

\* the part of C14 that is about countWorkingThumbnails: a call that is
\* waiting eventually returns
CountCompletes == (counting.pc = "waiting") ~> (counting.pc = "returned")

\* the values the concurrency setting of a probe batch may be given, up to
\* its default
ConcurrencyLimits == 1..6

\* the probes of a batch that have been started and have not resolved
InFlight(promises) == Cardinality({k \in 1..Len(promises) : promises[k] = "pending"})

\* C15: whatever the concurrency setting, at every moment of a probe batch
\* (testAndFilterImages or countWorkingThumbnails) the number of probes
\* started and not yet resolved is at most that setting.
C15_InFlightWithinLimit ==
    \A limit \in ConcurrencyLimits :
        /\ \A i \in 1..Len(tests) : InFlight(tests[i].promises) <= limit
        /\ InFlight(counting.promises) <= limit

(***************************************************************************)
(* Properties of the resolver.                                             *)
(***************************************************************************)
\* the string is a run of 7 to 9 digits
IsIdentifier(cs) == Len(cs) \in 7..9 /\ \A k \in 1..Len(cs) : cs[k] \in Digits

\* C16: what extractNetflixId returns is null or a string of 7 to 9 digits,
\* taken from the first of the patterns title, watch, generic path, bare
\* digits that matches; a bare token is accepted only if it is 7 to 9 digits
\* long.
C16_IdentifierIs7to9Digits ==
    resolvePc = "returned" =>
        /\ extracted # Null => IsIdentifier(extracted)
        /\ MatchPrefixed(typed, LitTitle) # Null =>
              extracted = MatchPrefixed(typed, LitTitle)
        /\ (\A k \in 1..Len(typed) : typed[k] \in Digits) =>
              (extracted # Null <=> IsIdentifier(typed))

(***************************************************************************)
(* Properties of fetchThumbnails.                                          *)
(***************************************************************************)
\* this step is a call of fetchThumbnails
CallStep == lastCall'.tick # lastCall.tick

\* the input field holds nothing, or nothing extractNetflixId finds an
\* identifier in
InvalidInput(v) == trim(v) = <<>> \/ extractNetflixId(trim(v)) = Null

\* the two errors fetchThumbnails shows for an input it does not accept
InputErrors ==
    { showError("Please enter a Netflix URL or Movie ID"),
      showError("Invalid Netflix URL or ID format") }

\* the call left the lists, the selection, the flag, the grid and the probes
\* as they were
NoOtherEffect ==
    UNCHANGED <<thumbnails, selectedThumbnails, isProcessing, genId, grid,
                gridGen, tests, fetches>>

\* C17 as stated: every call of fetchThumbnails with an empty input, or one
\* no identifier is found in, shows the invalid-input error and changes
\* nothing else.
C17_InvalidInputReported ==
    [][(CallStep /\ InvalidInput(lastCall'.input)) =>
          /\ notification' \in InputErrors
          /\ NoOtherEffect]_vars

\* C17 amended: a call with such an input made while isProcessing is false
\* shows the error of its case and changes nothing else; one made while
\* isProcessing is true changes nothing at all, the notification included.
C17_InvalidInputNoEffect ==
    [][(CallStep /\ InvalidInput(lastCall'.input)) =>
          /\ NoOtherEffect
          /\ notification' =
                IF isProcessing THEN notification
                ELSE IF trim(lastCall'.input) = <<>>
                THEN showError("Please enter a Netflix URL or Movie ID")
                ELSE showError("Invalid Netflix URL or ID format")]_vars

\* an input without identifier was rejected on a page with a selection and
\* a probed batch
C17_Witness ==
    /\ lastCall.outcome = "invalid"
    /\ notification = showError("Invalid Netflix URL or ID format")
    /\ selectedThumbnails # {}
    /\ thumbnails # <<>>
    /\ ~isProcessing

\* calls of getNetflixThumbnails that have been made and have not returned
Generating == fetches - gridGen

\* C20: a call of fetchThumbnails made while isProcessing is true changes
\* neither this.thumbnails nor the flag and starts no generation; at most
\* one generation is in progress at any time, isProcessing is true exactly
\* while one is, and it is false again in the step that ends the generation.
C20_FetchExclusive ==
    /\ [][(CallStep /\ isProcessing) =>
            UNCHANGED <<thumbnails, isProcessing, genId, fetches, grid, gridGen, tests>>]_vars
    /\ [](Generating <= 1)
    /\ [](isProcessing <=> Generating = 1)
    /\ [][gridGen' # gridGen => ~isProcessing']_vars

\* a call was turned away while a generation was awaited, and the generation
\* has ended since
C20_Witness ==
    /\ lastCall.outcome = "busy"
    /\ extractNetflixId(trim(lastCall.input)) # Null
    /\ ~isProcessing
    /\ gridGen = 2

(***************************************************************************)
(* The byte fetch of downloadSingle.                                       *)
(***************************************************************************)
\* a downloadSingle that fetches the bytes itself (trimming is off)
SingleFetches == dl.fn = "single" /\ dl.attempts # <<>>

\* the transport whose bytes downloadSingle handed to downloadBlob
DeliveredVia == dl.blob.content[1].via

C19_PixelCopy ==
    (HasTrimmed /\ ~trimmed.threw) =>
        /\ trimmed.data.width = trimmed.rightCrop - trimmed.leftCrop
        /\ trimmed.data.height = trimmed.bottomCrop - trimmed.topCrop
        /\ Len(trimmed.data.data) = 4 * trimmed.data.width * trimmed.data.height
        /\ \A x \in 0..(trimmed.data.width - 1), y \in 0..(trimmed.data.height - 1),
              c \in 0..3 :
              Channel(trimmed.data, x, y, c)
                = Channel(image, x + trimmed.leftCrop, y + trimmed.topCrop, c)

\* a crop that cut a row off the top and a column off the left and kept two
\* pixels or more, one of them not opaque
C19_Witness ==
    /\ HasTrimmed
    /\ ~trimmed.threw
    /\ trimmed.topCrop > 0
    /\ trimmed.leftCrop > 0
    /\ trimmed.data.width * trimmed.data.height >= 2
    /\ \E x \in 0..(trimmed.data.width - 1), y \in 0..(trimmed.data.height - 1) :
          Channel(trimmed.data, x, y, 3) # 255

(***************************************************************************)
(* Batches of probes, one after the other.                                 *)
(***************************************************************************)
\* C21: the probes of one fetchThumbnails batch are all resolved before the
\* next batch starts: at most one testAndFilterImages is waiting, the grid it
\* waits on is the one on the page, and no generation is under way while it
\* waits, so that its summary counts its own candidates only.
C21_BatchesDoNotOverlap ==
    /\ Len(tests) <= 1
    /\ \A i \in 1..Len(tests) : tests[i].gen = gridGen
    /\ tests # <<>> => ~isProcessing

(***************************************************************************)
(* The number countWorkingThumbnails returns.                              *)
(***************************************************************************)
\* C22: the number countWorkingThumbnails returns, and testMultipleIds
\* stores as workingCount, is the number of candidates whose promise was
\* resolved true, whatever the order of the onload, onerror and timeout
\* callbacks: a candidate resolved false by its timeout is not counted, and
\* none is counted twice.
C22_CountIsResolvedTrue ==
    counting.pc = "returned" =>
        /\ counting.result = Cardinality(ResolvedTrue(counting))
        /\ counting.result <= Len(counting.promises)
        /\ results[Len(results)].workingCount = Cardinality(ResolvedTrue(counting))

====
